---- MODULE Spec2Model ----
(***************************************************************************)
(* A model of pinip: the foreground scheduler of src/main.go (start, the   *)
(* two spawners, toForeground, waitForChildrenAfterAFailedOne) and the     *)
(* virtual screen of src/terminalscreen/screen.go.                        *)
(*                                                                         *)
(* Two state machines share this module.  Spec (and FairSpec, the same     *)
(* machine with the scheduling fairness of the Go runtime) is the          *)
(* scheduler; ScreenSpec is one Screen fed by its parser.  Each leaves the *)
(* other's variables untouched.  FromStdinSpec is the scheduler as         *)
(* src/unnamed/part_000 starts it: one goroutine that runs the spawner of  *)
(* each argument source whose flag is set.                                 *)
(***************************************************************************)
EXTENDS Integers, Sequences, FiniteSets, TLC

(***************************************************************************)
(* Bounds of the model.                                                    *)
(***************************************************************************)
\* the largest number of arguments (args.data entries or stdin lines)
MaxArgs == 3
\* the largest -max-processes value explored (the smallest is MinProcesses)
MaxProcesses == 3
\* the largest number of output chunks one child writes
MaxOut == 1

\* start() makes a channel of capacity flMaxProcesses-2: 2 is the least value
\* for which make() does not panic ("TODO: make flMaxProcesses be able to be 1")
MinProcesses == 2

\* The bytes a chunk's length prefix and fd byte take in a page.
HeaderSize == 1

Children == 1..MaxArgs

\* The chunks child c writes at most: the first child one more than the others,
\* so that one child can have output both in its buffer and after promotion.
MaxOutOf(c) == IF c = 1 THEN MaxOut + 1 ELSE MaxOut

\* Values (*exec.ExitError).ExitCode() reports to toForeground: the exit status
\* of a child that exited, or -1 for a child terminated by a signal.
ExitCodes == {-1, 0, 1}

Max(a, b) == IF a >= b THEN a ELSE b

VARIABLES
    \* ---- configuration (flags and arguments, fixed by parseArgs)
    flMaxProcesses,         \* *flMaxProcesses
    flKeepGoingOnError,     \* *flKeepGoingOnError
    hasTripleColon,         \* args.hasTripleColon: TRUE = command line, FALSE = stdin
    nData,                  \* len(args.data), or the number of lines stdin holds
    flFromStdin,            \* stdin is read for arguments (*flFromStdin in
                            \* src/unnamed/part_000; in src/main.go, no triple colon)
    \* ---- the spawner goroutine
    spawnerPc,              \* "loop" | "run" | "send" | "close" | "done"
    nextArg,                \* index of the next argument or line
    held,                   \* the ProcessResult being sent (0: none)
    nSpawned,               \* children created by run() so far
    \* ---- the channel `processes`
    processes,              \* its buffer
    closed,                 \* close(result) has run
    \* ---- shared
    noLongerSpawnChildren,  \* the atomic.Bool
    \* ---- children (ProcessResult and its Output)
    state,                  \* child -> "unspawned" | "running" | "exited"
    signalled,              \* child -> SIGTERM was sent by the abort flow
    waited,                 \* child -> proc.wait() has returned for it
    shouldPassToParent,     \* child -> Output.shouldPassToParent
    parts,                  \* child -> chunks held in the Output buffer
    partsMutex,             \* the child whose Output.partsMutex toForeground holds (0: none)
    emitted,                \* child -> chunks the child has written so far
    \* ---- the memory budget (mem)
    currentlyStored,        \* mem.currentlyStored
    currentlyInTheForeground, \* mem.currentlyInTheForeground (0: nil)
    broadcasts,             \* calls of mem.childDiedFreeingMemory.Broadcast()
    \* ---- the foreground task (start's range loop)
    fgPc,                   \* "recv" | "toForeground" | "latch" |
                            \* "wait" | "check" | "abort" | "wgWait" | "returned"
    cur,                    \* the ProcessResult in the foreground (0: none)
    lastCode,               \* what the last call of toForeground returned
    exitCode,               \* start's named result
    wg,                     \* waitForChildrenAfterAFailedOne's WaitGroup
    \* ---- the real terminal
    tty,                    \* sequence of <<child, chunk number>> written to fd 1/2
    ttyOpen,                \* writes to fd 1/2 succeed (FALSE: the terminal is gone
                            \* and every write fails)
    \* ---- the Screen of src/terminalscreen/screen.go
    screen,                 \* the Screen struct
    calls,                  \* the number of calls the parser has made on it
    fed                     \* the input so far, for as long as it is plain text:
                            \* [plain |-> no call but runes and "\n", text |-> them],
                            \* and the number of unhandled sequences in it

schedVars == <<flMaxProcesses, flKeepGoingOnError, hasTripleColon, nData, flFromStdin,
               spawnerPc, nextArg, held, nSpawned, processes, closed,
               noLongerSpawnChildren, state, signalled, waited,
               shouldPassToParent, parts, emitted, fgPc, cur, lastCode, exitCode,
               wg, tty, partsMutex, currentlyStored, currentlyInTheForeground,
               broadcasts, ttyOpen>>
screenVars == <<screen, calls, fed>>
vars == <<schedVars, screenVars>>

confVars == <<flMaxProcesses, flKeepGoingOnError, hasTripleColon, nData, flFromStdin>>
spawnerVars == <<spawnerPc, nextArg, held, nSpawned>>
chanVars == <<processes, closed>>
childVars == <<state, signalled, waited, shouldPassToParent, parts, emitted>>
fgVars == <<fgPc, cur, lastCode, exitCode, wg>>
memVars == <<partsMutex, currentlyStored, currentlyInTheForeground, broadcasts, ttyOpen>>

(***************************************************************************)
(* The scheduler: src/main.go.                                             *)
(***************************************************************************)

\* A capacity one larger than the one start() asks for.
CapacityOffByOne == flMaxProcesses - 1

\* make(chan ProcessResult, *flMaxProcesses-2)
Capacity == flMaxProcesses - 2

\* The foreground task is blocked in a receive on `processes`.
Receiving == fgPc \in {"recv", "abort"}

\* What the receiver does with the ProcessResult c it received: the body of
\* start's range loop begins (toForeground), or, in the abort flow, the body of
\* waitForChildrenAfterAFailedOne's loop runs: SIGTERM, wg.Add(1), go wait().
Deliver(c) ==
    IF fgPc = "recv"
    THEN /\ fgPc' = "toForeground"
         /\ cur' = c
         /\ UNCHANGED <<signalled, wg>>
    ELSE /\ signalled' = [signalled EXCEPT ![c] = TRUE]
         /\ wg' = wg \cup {c}
         /\ UNCHANGED <<fgPc, cur>>

\* The head of startProcessesFromCliArguments's loop: the next argument, unless
\* the arguments are used up or the stop flag is seen set.
SpawnerLoopCli ==
    /\ spawnerPc = "loop"
    /\ hasTripleColon
    /\ spawnerPc' = IF nextArg > nData \/ noLongerSpawnChildren THEN "close" ELSE "run"
    /\ nextArg' = IF nextArg > nData \/ noLongerSpawnChildren THEN nextArg ELSE nextArg + 1
    /\ UNCHANGED <<held, nSpawned, confVars, memVars, chanVars, noLongerSpawnChildren,
                   childVars, fgVars, tty, screenVars>>

\* The head of startProcessesFromStdin's loop: ReadString returns the next line,
\* empty or not, or io.EOF; an empty line starts nothing.  The flag is not read.
SpawnerLoopStdin ==
    /\ spawnerPc = "loop"
    /\ ~hasTripleColon
    /\ IF nextArg > nData
       THEN spawnerPc' = "close" /\ nextArg' = nextArg
       ELSE /\ nextArg' = nextArg + 1
            /\ \E lineIsEmpty \in BOOLEAN :
                 spawnerPc' = IF lineIsEmpty THEN "loop" ELSE "run"
    /\ UNCHANGED <<held, nSpawned, confVars, memVars, chanVars, noLongerSpawnChildren,
                   childVars, fgVars, tty, screenVars>>

\* run(processCommand): a child is started under a pty with an empty Output.
SpawnerRun ==
    /\ spawnerPc = "run"
    /\ nSpawned < MaxArgs
    /\ nSpawned' = nSpawned + 1
    /\ held' = nSpawned + 1
    /\ state' = [state EXCEPT ![nSpawned + 1] = "running"]
    /\ spawnerPc' = "send"
    /\ UNCHANGED <<nextArg, confVars, memVars, chanVars, noLongerSpawnChildren, signalled,
                   waited, shouldPassToParent, parts, emitted, fgVars, tty, screenVars>>

\* result <- ... : the send completes when the buffer has room, or, on a full
\* (or unbuffered) channel, when the receiver is waiting and takes the value.
SpawnerSend ==
    /\ spawnerPc = "send"
    /\ ~closed
    /\ \/ /\ Len(processes) < Capacity
          /\ processes' = Append(processes, held)
          /\ UNCHANGED <<fgVars, signalled>>
       \/ /\ Len(processes) >= Capacity
          /\ processes = <<>>
          /\ Receiving
          /\ Deliver(held)
          /\ UNCHANGED <<processes, lastCode, exitCode>>
    /\ held' = 0
    /\ spawnerPc' = "loop"
    /\ UNCHANGED <<nextArg, nSpawned, confVars, memVars, closed, noLongerSpawnChildren, state,
                   waited, shouldPassToParent, parts, emitted, tty, screenVars>>

\* close(result)
SpawnerClose ==
    /\ spawnerPc = "close"
    /\ closed' = TRUE
    /\ spawnerPc' = "done"
    /\ UNCHANGED <<nextArg, held, nSpawned, confVars, memVars, processes, noLongerSpawnChildren,
                   childVars, fgVars, tty, screenVars>>

\* `for processResult := range processes` in start: the next ProcessResult in
\* the order sent, or the end of the loop once the channel is closed and empty.
\* (The "+ command" line that -v prints to stderr here is left out: it reads
\* the ProcessResult and changes nothing.)
FgRecv ==
    /\ fgPc = "recv"
    /\ \/ /\ processes # <<>>
          /\ Deliver(Head(processes))
          /\ processes' = Tail(processes)
       \/ /\ processes = <<>>
          /\ closed
          /\ fgPc' = "returned"
          /\ UNCHANGED <<cur, processes, signalled, wg>>
    /\ UNCHANGED <<lastCode, exitCode, confVars, memVars, spawnerVars, closed, noLongerSpawnChildren,
                   state,
                   waited, shouldPassToParent, parts, emitted, tty, screenVars>>

\* chunkSizeWithHeader(content): the payload and its length prefix.  Chunk
\* number i of a child stands for a payload of i bytes.
chunkSizeWithHeader(content) == HeaderSize + content

\* writeOut's loop: clearedOutBytes, over the chunks nextChunk hands out.
RECURSIVE clearedOutBytes(_)
clearedOutBytes(chunks) ==
    IF chunks = <<>> THEN 0
    ELSE chunkSizeWithHeader(Head(chunks)) + clearedOutBytes(Tail(chunks))

\* syscall.Write(fd, content) for each chunk in turn; the result is dropped, so
\* on a closed terminal nothing is written and nothing else changes.
Write(c, chunks) ==
    IF ttyOpen THEN tty \o [i \in 1..Len(chunks) |-> <<c, chunks[i]>>] ELSE tty

\* writeOut run outside the critical section: partsMutex is not held when it
\* returns, before toForeground has set shouldPassToParent.
FgWriteOutUnlocks ==
    /\ fgPc = "toForeground"
    /\ partsMutex = 0
    /\ tty' = Write(cur, parts[cur])
    /\ parts' = [parts EXCEPT ![cur] = <<>>]
    /\ currentlyStored' = currentlyStored - clearedOutBytes(parts[cur])
    /\ currentlyInTheForeground' = cur
    /\ broadcasts' = broadcasts + 1
    /\ partsMutex' = 0
    /\ fgPc' = "latch"
    /\ UNCHANGED <<cur, lastCode, exitCode, wg, confVars, spawnerVars, chanVars,
                   noLongerSpawnChildren, state, signalled, waited,
                   shouldPassToParent, emitted, ttyOpen, screenVars>>

\* writeOut counting only the chunks whose write succeeded.
FgWriteOutCountsWritten ==
    /\ fgPc = "toForeground"
    /\ partsMutex = 0
    /\ tty' = Write(cur, parts[cur])
    /\ parts' = [parts EXCEPT ![cur] = <<>>]
    /\ currentlyStored' = IF ttyOpen
                          THEN currentlyStored - clearedOutBytes(parts[cur])
                          ELSE currentlyStored
    /\ currentlyInTheForeground' = cur
    /\ broadcasts' = broadcasts + 1
    /\ partsMutex' = cur
    /\ fgPc' = "latch"
    /\ UNCHANGED <<cur, lastCode, exitCode, wg, confVars, spawnerVars, chanVars,
                   noLongerSpawnChildren, state, signalled, waited,
                   shouldPassToParent, emitted, ttyOpen, screenVars>>

\* proc.output.partsMutex.Lock(); writeOut(proc.output): every chunk is written
\* to the terminal in append order, the pages are freed, and under
\* childDiedFreeingMemory.L the cleared bytes are subtracted from
\* currentlyStored, currentlyInTheForeground is set and the condition variable
\* is broadcast.
FgWriteOut ==
    /\ fgPc = "toForeground"
    /\ partsMutex = 0
    /\ tty' = Write(cur, parts[cur])
    /\ parts' = [parts EXCEPT ![cur] = <<>>]
    /\ currentlyStored' = currentlyStored - clearedOutBytes(parts[cur])
    /\ currentlyInTheForeground' = cur
    /\ broadcasts' = broadcasts + 1
    /\ partsMutex' = cur
    /\ fgPc' = "latch"
    /\ UNCHANGED <<cur, lastCode, exitCode, wg, confVars, spawnerVars, chanVars,
                   noLongerSpawnChildren, state, signalled, waited,
                   shouldPassToParent, emitted, ttyOpen, screenVars>>

\* proc.output.shouldPassToParent = true; proc.output.partsMutex.Unlock()
FgLatch ==
    /\ fgPc = "latch"
    /\ shouldPassToParent' = [shouldPassToParent EXCEPT ![cur] = TRUE]
    /\ partsMutex' = 0
    /\ fgPc' = "wait"
    /\ UNCHANGED <<cur, lastCode, exitCode, wg, confVars, spawnerVars, chanVars,
                   noLongerSpawnChildren, state, signalled, waited, parts, emitted,
                   currentlyStored, currentlyInTheForeground, broadcasts, tty,
                   ttyOpen, screenVars>>

\* toForeground returning at once, without proc.wait().
FgWaitNoWait ==
    /\ fgPc = "wait"
    /\ fgPc' = "check"
    /\ UNCHANGED <<waited, lastCode, exitCode, cur, wg, confVars, memVars, spawnerVars, chanVars,
                   noLongerSpawnChildren,
                   state, signalled, shouldPassToParent, parts, emitted, tty,
                   screenVars>>

\* proc.wait() returning while the child is still running.
FgWaitBeforeExit ==
    /\ fgPc = "wait"
    /\ waited' = [waited EXCEPT ![cur] = TRUE]
    /\ \E ec \in ExitCodes :
         /\ lastCode' = ec
         /\ exitCode' = Max(exitCode, ec)
    /\ fgPc' = "check"
    /\ UNCHANGED <<cur, wg, confVars, memVars, spawnerVars, chanVars,
                   noLongerSpawnChildren, state, signalled, shouldPassToParent,
                   parts, emitted, tty, screenVars>>

\* toForeground, the rest: proc.wait() returns once the child has exited, with
\* nil (0) or an ExitError whose ExitCode() is `ec`, and start folds the code:
\* exitCode = max(exitCode, toForeground(...)).
FgWait ==
    /\ fgPc = "wait"
    /\ state[cur] = "exited"
    /\ waited' = [waited EXCEPT ![cur] = TRUE]
    /\ \E ec \in ExitCodes :
         /\ lastCode' = ec
         /\ exitCode' = Max(exitCode, ec)
    /\ fgPc' = "check"
    /\ UNCHANGED <<cur, wg, confVars, memVars, spawnerVars, chanVars, noLongerSpawnChildren,
                   state, signalled, shouldPassToParent, parts, emitted, tty,
                   screenVars>>

\* `if !*flKeepGoingOnError { if exitCode != 0 { noLongerSpawnChildren.Store(true)`
\* and the call of waitForChildrenAfterAFailedOne; else the next iteration.
FgCheck ==
    /\ fgPc = "check"
    /\ IF ~flKeepGoingOnError /\ exitCode # 0
       THEN noLongerSpawnChildren' = TRUE /\ fgPc' = "abort"
       ELSE noLongerSpawnChildren' = noLongerSpawnChildren /\ fgPc' = "recv"
    /\ UNCHANGED <<cur, lastCode, exitCode, wg, confVars, memVars, spawnerVars, chanVars, childVars, tty,
                   screenVars>>

\* waitForChildrenAfterAFailedOne's loop: each ProcessResult received is sent
\* SIGTERM and handed to a goroutine that waits for it; the loop ends when the
\* channel is closed and empty.
AbortRecv ==
    /\ fgPc = "abort"
    /\ \/ /\ processes # <<>>
          /\ Deliver(Head(processes))
          /\ processes' = Tail(processes)
       \/ /\ processes = <<>>
          /\ closed
          /\ fgPc' = "wgWait"
          /\ UNCHANGED <<cur, processes, signalled, wg>>
    /\ UNCHANGED <<lastCode, exitCode, confVars, memVars, spawnerVars, closed, noLongerSpawnChildren,
                   state,
                   waited, shouldPassToParent, parts, emitted, tty, screenVars>>

\* `go func() { _ = processResult.wait(); wg.Done() }()`
WaiterDone(c) ==
    /\ c \in wg
    /\ state[c] = "exited"
    /\ waited' = [waited EXCEPT ![c] = TRUE]
    /\ wg' = wg \ {c}
    /\ UNCHANGED <<fgPc, cur, lastCode, exitCode, confVars, memVars, spawnerVars, chanVars,
                   noLongerSpawnChildren, state, signalled, shouldPassToParent,
                   parts, emitted, tty, screenVars>>

\* Returning without wg.Wait().
AbortWgWaitNoWait ==
    /\ fgPc = "wgWait"
    /\ fgPc' = "returned"
    /\ UNCHANGED <<cur, lastCode, exitCode, wg, confVars, memVars, spawnerVars, chanVars,
                   noLongerSpawnChildren, childVars, tty, screenVars>>

\* wg.Wait(), then `break` and `return exitCode`.
AbortWgWait ==
    /\ fgPc = "wgWait"
    /\ wg = {}
    /\ fgPc' = "returned"
    /\ UNCHANGED <<cur, lastCode, exitCode, wg, confVars, memVars, spawnerVars, chanVars,
                   noLongerSpawnChildren, childVars, tty, screenVars>>

\* The child's reader task receives a chunk of scrollback from the child's
\* Screen.  Under the Output's partsMutex it is appended to the buffer and
\* counted in currentlyStored, or, once shouldPassToParent is set, written
\* straight to the terminal.
ChildOutput(c) ==
    /\ state[c] = "running"
    /\ emitted[c] < MaxOutOf(c)
    /\ partsMutex # c
    /\ emitted' = [emitted EXCEPT ![c] = @ + 1]
    /\ IF shouldPassToParent[c]
       THEN /\ tty' = Write(c, <<emitted[c] + 1>>)
            /\ UNCHANGED <<parts, currentlyStored>>
       ELSE /\ parts' = [parts EXCEPT ![c] = Append(@, emitted[c] + 1)]
            /\ currentlyStored' = currentlyStored + chunkSizeWithHeader(emitted[c] + 1)
            /\ tty' = tty
    /\ UNCHANGED <<confVars, spawnerVars, chanVars, noLongerSpawnChildren, state,
                   signalled, waited, shouldPassToParent, fgVars, partsMutex,
                   currentlyInTheForeground, broadcasts, ttyOpen, screenVars>>

\* The child exits and its reader has seen EOF: its waiter may return.
ChildExit(c) ==
    /\ state[c] = "running"
    /\ state' = [state EXCEPT ![c] = "exited"]
    /\ UNCHANGED <<confVars, memVars, spawnerVars, chanVars, noLongerSpawnChildren, signalled,
                   waited, shouldPassToParent, parts, emitted, fgVars, tty,
                   screenVars>>

SpawnerStep ==
    \/ SpawnerLoopCli
    \/ SpawnerLoopStdin
    \/ SpawnerRun
    \/ SpawnerSend
    \/ SpawnerClose

FgStep ==
    \/ FgRecv
    \/ FgWriteOut
    \/ FgLatch
    \/ FgWait
    \/ FgCheck
    \/ AbortRecv
    \/ AbortWgWait

(***************************************************************************)
(* The Screen: src/terminalscreen/screen.go.  A Screen is a record; each   *)
(* method is an operator from the Screen before the call to the Screen     *)
(* after it.  Coordinates are 0-based as in the source; TLA+ sequences are *)
(* 1-based, so cell x of line y is s.lines[y + 1][x + 1].                  *)
(*                                                                         *)
(* The scrollback is a sequence of tokens: a rune, "\n", or one whole      *)
(* escape sequence written "ESC[...".                                      *)
(***************************************************************************)

\* the largest number of calls the parser makes on one Screen before End
MaxOps == 4
\* the largest height handed to NewScreen
MaxHeight == 2
\* the largest count or coordinate of a cursor movement
MaxCount == 2

\* the width handed to NewScreen (the Screen never reads desiredWidth)
TerminalWidth == 80

Runes == {"a", "b"}
\* SGR parameters: 0 reset, 1 bold, 31 and 32 foreground colours
SGRParams == {0, 1, 31, 32}
\* sequences the parser has no handler for: alternate screen, window title
Unhandled == {"ESC[?1049h", "ESC]0;tBEL"}
RelativeCounts == (0 - MaxCount)..MaxCount
AbsoluteTargets == (0 - 1)..MaxCount

\* Character{} as a Line makes it: a space, no SGR, no escape sequences.
DefaultCharacter == [rune |-> " ", sgr |-> <<>>, extraEscapeSequences |-> <<>>]

\* NewLine()
NewLine == <<>>

\* Line.characterAt(x): the line grown with default cells up to x inclusive.
characterAt(line, x) ==
    IF Len(line) >= x + 1
    THEN line
    ELSE line \o [i \in 1..(x + 1 - Len(line)) |-> DefaultCharacter]

\* Line.lengthWithoutTrailingSpacesAndEmptyRunes()
RECURSIVE lengthWithoutTrailingSpacesAndEmptyRunes(_)
lengthWithoutTrailingSpacesAndEmptyRunes(line) ==
    IF line = <<>> \/ line[Len(line)] # DefaultCharacter
    THEN Len(line)
    ELSE lengthWithoutTrailingSpacesAndEmptyRunes(SubSeq(line, 1, Len(line) - 1))

\* The category of an SGR parameter: attributes of one category replace each other.
sgrCategory(p) ==
    CASE p \in {1, 2, 22} -> "intensity"
      [] p \in 30..37 \cup 90..97 -> "foreground"
      [] p \in 40..47 \cup 100..107 -> "background"
      [] OTHER -> "other"

\* SelectGraphicRenditionAttribute.isUnsetAll()
isUnsetAll(sgr) == sgr = 0

\* SelectGraphicRenditionAttribute.toCSI()
toCSI(sgr) == "ESC[" \o ToString(sgr) \o "m"

\* SelectGraphicRenditionAttribute.addToSGRAttributeList(list)
addToSGRAttributeList(sgr, list) ==
    SelectSeq(list, LAMBDA e : sgrCategory(e) # sgrCategory(sgr)) \o <<sgr>>

\* Character.addSGR for each attribute of `sgrs`, in order.
RECURSIVE addSGRs(_, _)
addSGRs(cellSgr, sgrs) ==
    IF sgrs = <<>>
    THEN cellSgr
    ELSE addSGRs(addToSGRAttributeList(Head(sgrs), cellSgr), Tail(sgrs))

\* NewScreen(width, height): both coerced to at least 1; one empty line;
\* currentSGRs is the nil slice.  `sent` is not a field of the struct: it
\* counts the calls of sendLineToScrollbackBuffer, for the claims.
NewScreen(width, height) ==
    [ lines |-> <<NewLine>>,
      desiredWidth |-> IF width <= 0 THEN 1 ELSE width,
      maxHeight |-> IF height <= 0 THEN 1 ELSE height,
      positionX |-> 0,
      positionY |-> 0,
      Ended |-> FALSE,
      QueuedScrollbackOutput |-> <<>>,
      currentSGRs |-> [isNil |-> TRUE, list |-> <<>>],
      sent |-> 0 ]

\* Screen.currentLine()
currentLine(s) == s.lines[s.positionY + 1]

\* Screen.currentScreenHeight()
currentScreenHeight(s) == Len(s.lines)

\* Screen.appendToScrollback(str), for a str that is tokens
appendToScrollback(s, tokens) ==
    [s EXCEPT !.QueuedScrollbackOutput = @ \o tokens]

\* The loop without the reset before the attributes of a cell are set.
RECURSIVE scrollbackOfCharactersNoReset(_, _, _, _)
scrollbackOfCharactersNoReset(characters, i, previousSgr, didSetSGR) ==
    IF i > Len(characters)
    THEN [out |-> <<>>, didSetSGR |-> didSetSGR]
    ELSE LET character == characters[i]
             changed == character.sgr # previousSgr
             here == character.extraEscapeSequences
                     \o (IF changed
                         THEN [k \in 1..Len(character.sgr) |-> toCSI(character.sgr[k])]
                         ELSE <<>>)
                     \o <<character.rune>>
             rest == scrollbackOfCharactersNoReset(characters, i + 1, character.sgr,
                                                   didSetSGR \/ changed)
         IN [out |-> here \o rest.out, didSetSGR |-> rest.didSetSGR]

\* The loop of sendLineToScrollbackBuffer over the characters from index i on:
\* the tokens appended, and whether an SGR was set.
RECURSIVE scrollbackOfCharacters(_, _, _, _)
scrollbackOfCharacters(characters, i, previousSgr, didSetSGR) ==
    IF i > Len(characters)
    THEN [out |-> <<>>, didSetSGR |-> didSetSGR]
    ELSE LET character == characters[i]
             changed == character.sgr # previousSgr
             here == character.extraEscapeSequences
                     \o (IF changed
                         THEN <<"ESC[0m">>
                              \o [k \in 1..Len(character.sgr) |-> toCSI(character.sgr[k])]
                         ELSE <<>>)
                     \o <<character.rune>>
             rest == scrollbackOfCharacters(characters, i + 1, character.sgr,
                                            didSetSGR \/ changed)
         IN [out |-> here \o rest.out, didSetSGR |-> rest.didSetSGR]

\* Screen.sendLineToScrollbackBuffer(line)
sendLineToScrollbackBuffer(s, line) ==
    LET sep == IF Len(s.QueuedScrollbackOutput) > 0 THEN <<"\n">> ELSE <<>>
        body == scrollbackOfCharacters(line, 1, <<>>, FALSE)
        reset == IF body.didSetSGR THEN <<"ESC[0m">> ELSE <<>>
    IN [appendToScrollback(s, sep \o body.out \o reset) EXCEPT !.sent = @ + 1]

\* `for _, line := range s.lines { s.sendLineToScrollbackBuffer(line) }`
RECURSIVE sendLinesFrom(_, _)
sendLinesFrom(s, i) ==
    IF i > Len(s.lines)
    THEN s
    ELSE sendLinesFrom(sendLineToScrollbackBuffer(s, s.lines[i]), i + 1)

\* "\033[" + strconv.Itoa(n) + final
cursorCSI(n, final) == "ESC[" \o ToString(n) \o final

\* Screen.End(), for a Screen that has not ended (a second call panics)
End(s) ==
    LET s1 == sendLinesFrom([s EXCEPT !.Ended = TRUE], 1)
        moveRightBy == lengthWithoutTrailingSpacesAndEmptyRunes(currentLine(s1)) - s1.positionX
        s2 == IF moveRightBy > 0 THEN appendToScrollback(s1, <<cursorCSI(moveRightBy, "C")>>)
              ELSE IF moveRightBy < 0
                   THEN appendToScrollback(s1, <<cursorCSI(0 - moveRightBy, "D")>>)
                   ELSE s1
        moveDownBy == currentScreenHeight(s2) - s2.positionY - 1
        s3 == IF moveDownBy > 0 THEN appendToScrollback(s2, <<cursorCSI(moveDownBy, "B")>>)
              ELSE IF moveDownBy < 0
                   THEN appendToScrollback(s2, <<cursorCSI(0 - moveDownBy, "A")>>)
                   ELSE s2
    IN [s3 EXCEPT !.lines = <<>>]

\* nextLine that removes the line just appended instead of the oldest one.
nextLineEvictsNewest(s) ==
    LET s1 == IF s.positionY < currentScreenHeight(s) - 1
              THEN [s EXCEPT !.positionY = @ + 1]
              ELSE [s EXCEPT !.lines = Append(@, NewLine)]
    IN IF currentScreenHeight(s1) > s1.maxHeight
       THEN [sendLineToScrollbackBuffer(s1, s1.lines[Len(s1.lines)])
                EXCEPT !.lines = SubSeq(@, 1, Len(@) - 1)]
       ELSE s1

\* nextLine that never sends a line to the scrollback.
nextLineNoEviction(s) ==
    IF s.positionY < currentScreenHeight(s) - 1
    THEN [s EXCEPT !.positionY = @ + 1]
    ELSE [s EXCEPT !.lines = Append(@, NewLine)]

\* Screen.nextLine()
nextLine(s) ==
    LET s1 == IF s.positionY < currentScreenHeight(s) - 1
              THEN [s EXCEPT !.positionY = @ + 1]
              ELSE [s EXCEPT !.lines = Append(@, NewLine)]
    IN IF currentScreenHeight(s1) > s1.maxHeight
       THEN [sendLineToScrollbackBuffer(s1, s1.lines[1]) EXCEPT !.lines = Tail(@)]
       ELSE s1

\* prevLine without the guard at the first line.
prevLineNoGuard(s) == [s EXCEPT !.positionY = @ - 1]

\* Screen.prevLine()
prevLine(s) ==
    IF s.positionY <= 0 THEN s ELSE [s EXCEPT !.positionY = @ - 1]

\* Screen.nextCharacter()
nextCharacter(s) == [s EXCEPT !.positionX = @ + 1]

\* Screen.prevCharacter()
prevCharacter(s) ==
    [s EXCEPT !.positionX = IF @ - 1 < 0 THEN 0 ELSE @ - 1]

\* setCurrentCharacterTo putting a new Character in the cell.
setCurrentCharacterToNewCharacter(s, r) ==
    LET line == characterAt(currentLine(s), s.positionX)
    IN [s EXCEPT !.lines[s.positionY + 1] =
            [line EXCEPT ![s.positionX + 1] =
                [DefaultCharacter EXCEPT !.rune = r, !.sgr = s.currentSGRs.list]]]

\* Screen.setCurrentCharacterTo(r): the cell is made to exist, takes the rune,
\* and has its SGR list cleared when currentSGRs is nil, or else has every
\* attribute of currentSGRs added to the list it holds.
setCurrentCharacterTo(s, r) ==
    LET line == characterAt(currentLine(s), s.positionX)
        currentCharacter == line[s.positionX + 1]
        sgr == IF s.currentSGRs.isNil
               THEN <<>>
               ELSE addSGRs(currentCharacter.sgr, s.currentSGRs.list)
    IN [s EXCEPT !.lines[s.positionY + 1] =
            [line EXCEPT ![s.positionX + 1] =
                [currentCharacter EXCEPT !.rune = r, !.sgr = sgr]]]

\* Screen.outNormalCharacter(b)
outNormalCharacter(s, b) == nextCharacter(setCurrentCharacterTo(s, b))

\* `for i := 0; howMany > i; i++ { s.nextLine() }`
RECURSIVE nextLines(_, _)
nextLines(s, howMany) ==
    IF howMany <= 0 THEN s ELSE nextLines(nextLine(s), howMany - 1)

\* `for i := 0; howMany < i; i-- { s.prevLine() }`
RECURSIVE prevLines(_, _)
prevLines(s, howMany) ==
    IF howMany >= 0 THEN s ELSE prevLines(prevLine(s), howMany + 1)

\* Screen.outRelativeMoveCursorVertical(howMany)
outRelativeMoveCursorVertical(s, howMany) ==
    prevLines(nextLines(s, howMany), howMany)

\* Screen.outRelativeMoveCursorHorizontal(howMany)
outRelativeMoveCursorHorizontal(s, howMany) ==
    [s EXCEPT !.positionX = IF @ + howMany < 0 THEN 0 ELSE @ + howMany]

\* Screen.outAbsoluteMoveCursorVertical(targetY)
outAbsoluteMoveCursorVertical(s, targetY) ==
    outRelativeMoveCursorVertical(s, targetY - s.positionY)

\* Screen.outAbsoluteMoveCursorHorizontal(targetX)
outAbsoluteMoveCursorHorizontal(s, targetX) ==
    [s EXCEPT !.positionX = IF targetX < 0 THEN 0 ELSE targetX]

\* Screen.outDeleteLeft(howMany), its loop from iteration i on
RECURSIVE deleteLeftFrom(_, _, _)
deleteLeftFrom(s, howMany, i) ==
    IF ~(howMany > i)
    THEN s
    ELSE LET s1 == setCurrentCharacterTo(prevCharacter(s), " ")
         IN IF s1.positionX = 0 THEN s1 ELSE deleteLeftFrom(s1, howMany, i + 1)

\* Screen.outDeleteLeft(howMany)
outDeleteLeft(s, howMany) == deleteLeftFrom(s, howMany, 0)

\* Screen.outUnhandledEscapeSequence(seq)
outUnhandledEscapeSequence(s, seq) ==
    LET line == characterAt(currentLine(s), s.positionX)
    IN [s EXCEPT !.lines[s.positionY + 1] =
            [line EXCEPT ![s.positionX + 1].extraEscapeSequences = Append(@, seq)]]

\* Screen.outSelectGraphicRenditionAttribute(sgr)
outSelectGraphicRenditionAttribute(s, sgr) ==
    IF isUnsetAll(sgr)
    THEN [s EXCEPT !.currentSGRs = [isNil |-> FALSE, list |-> <<>>]]
    ELSE [s EXCEPT !.currentSGRs =
              [isNil |-> FALSE, list |-> addToSGRAttributeList(sgr, @.list)]]

\* The parser may call the Screen: it has not ended, and the stream goes on.
Running == ~screen.Ended /\ calls < MaxOps

\* One call of the parser on the Screen: `input` is what the parser read and
\* `after` the Screen the call leaves.
Call(input, after) ==
    /\ Running
    /\ screen' = after
    /\ calls' = calls + 1
    /\ fed' = IF fed.plain /\ input \in Runes \cup {"\n"}
              THEN [fed EXCEPT !.text = Append(@, input)]
              ELSE [plain |-> FALSE, text |-> <<>>,
                    unhandled |-> fed.unhandled + IF input \in Unhandled THEN 1 ELSE 0]
    /\ UNCHANGED schedVars

\* a printable rune
NormalCharacter == \E r \in Runes : Call(r, outNormalCharacter(screen, r))

\* "\n"
LineFeed == Call("\n", nextLine(screen))

\* backspace, 0x08
Backspace == Call("BS", prevCharacter(screen))

\* CSI n A (up, -n) and CSI n B (down, +n)
RelativeMoveCursorVertical ==
    \E n \in RelativeCounts :
        Call(IF n < 0 THEN cursorCSI(0 - n, "A") ELSE cursorCSI(n, "B"),
             outRelativeMoveCursorVertical(screen, n))

\* CSI n D (left, -n) and CSI n C (right, +n)
RelativeMoveCursorHorizontal ==
    \E n \in RelativeCounts :
        Call(IF n < 0 THEN cursorCSI(0 - n, "D") ELSE cursorCSI(n, "C"),
             outRelativeMoveCursorHorizontal(screen, n))

\* CSI n G: column n, 1-based ("\r" is column 1)
AbsoluteMoveCursorHorizontal ==
    \E x \in AbsoluteTargets :
        Call(cursorCSI(x + 1, "G"), outAbsoluteMoveCursorHorizontal(screen, x))

\* CSI r ; c H: row r and column c, 1-based: the vertical move, then the
\* horizontal one
CursorPosition ==
    \E y \in AbsoluteTargets, x \in {0} :
        Call("ESC[" \o ToString(y + 1) \o ";" \o ToString(x + 1) \o "H",
             outAbsoluteMoveCursorHorizontal(outAbsoluteMoveCursorVertical(screen, y), x))

\* CSI 2 J and CSI K: the Screen has no operation for them; they are dropped
Erase == \E seq \in {"ESC[2J"} : Call(seq, screen)

\* delete-left of n cells
DeleteLeft ==
    \E n \in 1..MaxCount : Call(cursorCSI(n, "P"), outDeleteLeft(screen, n))

\* CSI p m
SelectGraphicRendition ==
    \E p \in SGRParams : Call(toCSI(p), outSelectGraphicRenditionAttribute(screen, p))

\* any sequence with no handler: delivered verbatim
UnhandledEscapeSequence ==
    \E seq \in Unhandled : Call(seq, outUnhandledEscapeSequence(screen, seq))

\* the child closed its output: Screen.End()
EndOfStream ==
    /\ ~screen.Ended
    /\ screen' = End(screen)
    /\ UNCHANGED <<calls, fed, schedVars>>

ScreenInit ==
    /\ \E height \in 0..MaxHeight : screen = NewScreen(TerminalWidth, height)
    /\ calls = 0
    /\ fed = [plain |-> TRUE, text |-> <<>>, unhandled |-> 0]

ScreenNext ==
    \/ NormalCharacter
    \/ LineFeed
    \/ Backspace
    \/ RelativeMoveCursorVertical
    \/ RelativeMoveCursorHorizontal
    \/ AbsoluteMoveCursorHorizontal
    \/ CursorPosition
    \/ Erase
    \/ DeleteLeft
    \/ SelectGraphicRendition
    \/ UnhandledEscapeSequence
    \/ EndOfStream

SchedInit ==
    /\ flMaxProcesses \in MinProcesses..MaxProcesses
    /\ flKeepGoingOnError \in BOOLEAN
    /\ hasTripleColon \in BOOLEAN
    /\ nData \in 0..MaxArgs
    /\ flFromStdin = ~hasTripleColon
    /\ spawnerPc = "loop"
    /\ nextArg = 1
    /\ held = 0
    /\ nSpawned = 0
    /\ processes = <<>>
    /\ closed = FALSE
    /\ noLongerSpawnChildren = FALSE
    /\ state = [c \in Children |-> "unspawned"]
    /\ signalled = [c \in Children |-> FALSE]
    /\ waited = [c \in Children |-> FALSE]
    /\ shouldPassToParent = [c \in Children |-> FALSE]
    /\ parts = [c \in Children |-> <<>>]
    /\ emitted = [c \in Children |-> 0]
    /\ fgPc = "recv"
    /\ cur = 0
    /\ lastCode = 0
    /\ exitCode = 0
    /\ wg = {}
    /\ tty = <<>>
    /\ partsMutex = 0
    /\ currentlyStored = 0
    /\ currentlyInTheForeground = 0
    /\ broadcasts = 0
    /\ ttyOpen \in BOOLEAN

\* The scheduler alone: the Screen stays as constructed.
Init ==
    /\ SchedInit
    /\ screen = NewScreen(TerminalWidth, 1)
    /\ calls = 0
    /\ fed = [plain |-> TRUE, text |-> <<>>, unhandled |-> 0]

Next ==
    \/ SpawnerLoopCli
    \/ SpawnerLoopStdin
    \/ SpawnerRun
    \/ SpawnerSend
    \/ SpawnerClose
    \/ FgRecv
    \/ FgWriteOut
    \/ FgLatch
    \/ FgWait
    \/ FgCheck
    \/ AbortRecv
    \/ AbortWgWait
    \/ \E c \in Children : WaiterDone(c)
    \/ \E c \in Children : ChildOutput(c)
    \/ \E c \in Children : ChildExit(c)

Spec == Init /\ [][Next]_vars

\* A step of one of the goroutines of start, or the exit of a child that was
\* sent SIGTERM.
Progress ==
    \/ SpawnerStep
    \/ FgStep
    \/ \E c \in Children : WaiterDone(c)
    \/ \E c \in Children : signalled[c] /\ ChildExit(c)

\* start() entered with keep-going off, as the abort flow needs, and with the
\* terminal there: what is shown on it is part of what is checked.
AbortInit ==
    /\ Init
    /\ flKeepGoingOnError = FALSE
    /\ ttyOpen = TRUE

\* The scheduling the Go runtime gives, and less: while some goroutine can take
\* a step, or a child that was sent SIGTERM has yet to exit, one of these
\* happens.  A child that was not signalled goes on for as long as it likes.
FairSpec ==
    /\ AbortInit
    /\ [][Next]_vars
    /\ WF_vars(Progress)

(***************************************************************************)
(* The claims about the scheduler.                                         *)
(***************************************************************************)

\* toForeground has been called for c: its buffer has been written out, and
\* shouldPassToParent is set or about to be.
Promoted(c) == shouldPassToParent[c] \/ partsMutex = c

\* The children whose output has reached the terminal.
OnTty == {tty[i][1] : i \in 1..Len(tty)}

\* Spawned and not yet waited for.
Unwaited == {c \in Children : state[c] # "unspawned" /\ ~waited[c]}

InChannel == {processes[i] : i \in 1..Len(processes)}

\* C1: the terminal receives the children's output in submission order: the
\* chunks on the terminal are ordered by child, and a chunk of child c is there
\* only if every child submitted before c has been promoted, has an empty
\* buffer and has been waited for.
C1_SubmissionOrder ==
    /\ \A i, j \in 1..Len(tty) : i < j => tty[i][1] <= tty[j][1]
    /\ \A c \in OnTty : \A d \in 1..(c - 1) :
         shouldPassToParent[d] /\ parts[d] = <<>> /\ waited[d]

\* C1's case: the third child has finished, with output, while the second is
\* still running in the foreground; the terminal holds the first child's output
\* and then the second's.
C1_Witness ==
    /\ Len(tty) >= 2
    /\ tty[1][1] = 1
    /\ tty[2][1] = 2
    /\ state[2] = "running"
    /\ state[3] = "exited"
    /\ parts[3] # <<>>

\* C2: in the normal flow at most flMaxProcesses children are spawned and not
\* yet waited for: the one in the foreground, at most flMaxProcesses-2 in the
\* channel, and the one the spawner is sending.
C2_AtMostNUnwaited ==
    ~noLongerSpawnChildren =>
        /\ Cardinality(Unwaited) <= flMaxProcesses
        /\ Len(processes) <= flMaxProcesses - 2
        /\ Unwaited \subseteq ({cur} \cup InChannel \cup {held})

\* C2's case: the bound is met, with one child in the foreground, a full
\* channel and the spawner blocked sending.
C2_Witness ==
    /\ ~noLongerSpawnChildren
    /\ flMaxProcesses = 3
    /\ Cardinality(Unwaited) = 3
    /\ cur \in Unwaited
    /\ Len(processes) = 1
    /\ held # 0
    /\ spawnerPc = "send"

\* The foreground task is past the check of the exit code toForeground returned
\* for cur, and has not taken another child yet or never will.
PastCheck ==
    /\ shouldPassToParent[cur]
    /\ waited[cur]
    /\ fgPc \in {"recv", "abort", "wgWait", "returned"}

\* C3: with keep-going off, once a child promoted to the foreground has exited
\* with a non-zero exit code, the stop flag is set and no later child is
\* promoted or has output on the terminal.
C3_StopAfterNonZeroExit ==
    (~flKeepGoingOnError /\ cur # 0 /\ PastCheck /\ lastCode # 0) =>
        /\ noLongerSpawnChildren
        /\ \A d \in Children : d > cur => ~shouldPassToParent[d] /\ d \notin OnTty

\* C4: once the stop flag is latched, no new child is spawned.
C4_NoSpawnAfterLatch ==
    [][noLongerSpawnChildren => nSpawned' = nSpawned]_vars

\* C5: in the abort flow no output of a child that was not promoted reaches the
\* terminal; when start returns the spawner has closed the channel and every
\* child spawned and not promoted has been sent SIGTERM and waited for; and
\* start does return.
C5_AbortReapsAll ==
    /\ [](\A c \in Children : ~Promoted(c) => c \notin OnTty)
    /\ []((fgPc = "returned" /\ noLongerSpawnChildren) =>
            /\ spawnerPc = "done"
            /\ \A c \in Children :
                 (state[c] # "unspawned" /\ ~shouldPassToParent[c]) =>
                     signalled[c] /\ waited[c])
    /\ (noLongerSpawnChildren ~> fgPc = "returned")

\* C5's case: start has returned from the abort flow, and a child that had
\* captured output was signalled, reaped and never shown.
C5_Witness ==
    /\ fgPc = "returned"
    /\ noLongerSpawnChildren
    /\ \E c \in Children : signalled[c] /\ waited[c] /\ parts[c] # <<>>

\* The children whose Screen is in pass-through state: shouldPassToParent is
\* set and the reader task has not reached the end of the child's output.
PassThrough == {c \in Children : shouldPassToParent[c] /\ state[c] = "running"}

\* C11, as stated: at most one Output has shouldPassToParent set.
C11_AtMostOneFlagSet ==
    Cardinality({c \in Children : shouldPassToParent[c]}) <= 1

\* C11, amended: at most one child with shouldPassToParent set is still
\* running, and a write to the terminal is made by the foreground task in
\* writeOut or by the reader of that one child, which is the foreground child.
C11_AtMostOneLivePassThrough ==
    /\ [](Cardinality(PassThrough) <= 1)
    /\ [][tty' # tty =>
            \/ fgPc = "toForeground" /\ fgPc' = "latch"
            \/ /\ PassThrough = {cur}
               /\ tty' = Append(tty, <<cur, emitted[cur] + 1>>)]_vars

\* C11's case: the first child was promoted and is gone, its flag still set;
\* the second is promoted, running, and has written to the terminal.
C11_Witness ==
    /\ shouldPassToParent[1]
    /\ state[1] = "exited"
    /\ PassThrough = {2}
    /\ emitted[2] = 1
    /\ tty # <<>>
    /\ tty[Len(tty)] = <<2, 1>>

\* The chunks of child c on the terminal, in the order they were written.
ChunksOnTty(c) ==
    LET RECURSIVE pick(_)
        pick(t) == IF t = <<>> THEN <<>>
                   ELSE IF Head(t)[1] = c THEN <<Head(t)[2]>> \o pick(Tail(t))
                   ELSE pick(Tail(t))
    IN pick(tty)

\* C14: within one child the terminal receives the chunks in the order they
\* were produced, each once: on a working terminal the chunks written followed
\* by the chunks still buffered are chunks 1, 2, ... up to the last one the
\* child produced; and once shouldPassToParent is set nothing is left in the
\* buffer, so that whatever was buffered came before every pass-through write.
C14_OrderWithinChild ==
    \A c \in Children :
        /\ ttyOpen => ChunksOnTty(c) \o parts[c] = [i \in 1..emitted[c] |-> i]
        /\ shouldPassToParent[c] => parts[c] = <<>>

\* C14's case: the first child had a chunk in its buffer when it was promoted
\* and wrote its next chunk in pass-through; both are on the terminal.
C14_Witness ==
    /\ shouldPassToParent[1]
    /\ currentlyInTheForeground = 1
    /\ emitted[1] = 2
    /\ tty = <<(<<1, 1>>), (<<1, 2>>)>>
    /\ state[1] = "running"

\* The bytes all Output buffers hold, counted as writeOut counts them.
RECURSIVE storedIn(_)
storedIn(cs) ==
    IF cs = {} THEN 0
    ELSE LET c == CHOOSE x \in cs : TRUE
         IN clearedOutBytes(parts[c]) + storedIn(cs \ {c})

\* C15: a drain takes every chunk out of the buffer, writes them in append
\* order if the terminal takes them, subtracts exactly their
\* chunkSizeWithHeader total from currentlyStored and broadcasts once, also
\* when the terminal is gone; currentlyStored is the total the buffers hold and
\* never negative.
C15_DrainAccounting ==
    /\ [](currentlyStored >= 0 /\ currentlyStored = storedIn(Children))
    /\ [][(fgPc = "toForeground" /\ fgPc' # fgPc) =>
            /\ parts'[cur] = <<>>
            /\ currentlyStored' = currentlyStored - clearedOutBytes(parts[cur])
            /\ broadcasts' = broadcasts + 1
            /\ ttyOpen => tty' = tty \o [i \in 1..Len(parts[cur]) |-> <<cur, parts[cur][i]>>]
            /\ ~ttyOpen => tty' = tty]_vars

\* C15's case: the terminal is gone, a buffer that held a chunk has been
\* drained, and the counter is back to what the other buffers hold.
C15_Witness ==
    /\ ~ttyOpen
    /\ cur # 0
    /\ fgPc = "latch"
    /\ emitted[cur] >= 1
    /\ parts[cur] = <<>>
    /\ broadcasts >= 1
    /\ \E c \in Children : parts[c] # <<>>

(***************************************************************************)
(* One Screen alone: the scheduler has not started.                        *)
(***************************************************************************)
ScreenOnlyInit ==
    /\ ScreenInit
    /\ flMaxProcesses = MinProcesses
    /\ flKeepGoingOnError = FALSE
    /\ hasTripleColon = TRUE
    /\ nData = 0
    /\ flFromStdin = FALSE
    /\ spawnerPc = "loop"
    /\ nextArg = 1
    /\ held = 0
    /\ nSpawned = 0
    /\ processes = <<>>
    /\ closed = FALSE
    /\ noLongerSpawnChildren = FALSE
    /\ state = [c \in Children |-> "unspawned"]
    /\ signalled = [c \in Children |-> FALSE]
    /\ waited = [c \in Children |-> FALSE]
    /\ shouldPassToParent = [c \in Children |-> FALSE]
    /\ parts = [c \in Children |-> <<>>]
    /\ emitted = [c \in Children |-> 0]
    /\ fgPc = "recv"
    /\ cur = 0
    /\ lastCode = 0
    /\ exitCode = 0
    /\ wg = {}
    /\ tty = <<>>
    /\ partsMutex = 0
    /\ currentlyStored = 0
    /\ currentlyInTheForeground = 0
    /\ broadcasts = 0
    /\ ttyOpen = TRUE

ScreenSpec == ScreenOnlyInit /\ [][ScreenNext]_vars

(***************************************************************************)
(* The claims about the Screen.                                            *)
(***************************************************************************)

\* C6: until End, the Screen holds at least one line and at most maxHeight
\* lines, and maxHeight is at least 1.
C6_BoundedHeight ==
    ~screen.Ended =>
        /\ screen.maxHeight >= 1
        /\ Len(screen.lines) >= 1
        /\ Len(screen.lines) <= screen.maxHeight

\* C6's case: a Screen of height 2 is full and has already sent a line with
\* text to the scrollback.
C6_Witness ==
    /\ ~screen.Ended
    /\ screen.maxHeight = 2
    /\ Len(screen.lines) = 2
    /\ screen.QueuedScrollbackOutput # <<>>

\* C7: until End, the cursor is on a line the Screen holds and its column is
\* not negative.
C7_CursorContainment ==
    ~screen.Ended =>
        /\ 0 <= screen.positionY
        /\ screen.positionY < Len(screen.lines)
        /\ screen.positionX >= 0

\* C7's case: after a line was evicted, the cursor has moved back up to the
\* first line of a full Screen of height 2.
C7_Witness ==
    /\ ~screen.Ended
    /\ screen.maxHeight = 2
    /\ Len(screen.lines) = 2
    /\ screen.QueuedScrollbackOutput # <<>>
    /\ screen.positionY = 0

\* C8: when the input was only printable runes and "\n", the scrollback
\* after End is the input.
C8_ReplayPreservesText ==
    (screen.Ended /\ fed.plain) => screen.QueuedScrollbackOutput = fed.text

\* The last SGR call was a reset-all: currentSGRs is the empty, non-nil list.
AfterReset == screen.currentSGRs = [isNil |-> FALSE, list |-> <<>>]

\* C9: a cell written by outNormalCharacter after a reset-all and before any
\* further SGR has the empty attribute list once the write completes.
C9_ResetCanonicalization ==
    [][(AfterReset /\ NormalCharacter) =>
         screen'.lines[screen.positionY + 1][screen.positionX + 1].sgr = <<>>]_vars

\* The sequences that must never be replayed: alternate screen, clear screen,
\* absolute cursor column, absolute cursor position.
NeverReplayed ==
    {"ESC[?1049h", "ESC[2J"}
    \cup {cursorCSI(x + 1, "G") : x \in AbsoluteTargets}
    \cup {"ESC[" \o ToString(y + 1) \o ";" \o ToString(x + 1) \o "H" :
             y \in AbsoluteTargets, x \in AbsoluteTargets}

\* C10: the scrollback holds no absolute-cursor, clear-screen or alt-screen
\* sequence.
C10_NoScreenSequencesReplayed ==
    \A i \in 1..Len(screen.QueuedScrollbackOutput) :
        screen.QueuedScrollbackOutput[i] \notin NeverReplayed

Min(a, b) == IF a <= b THEN a ELSE b

\* The lines of a text of runes and "\n": what is between the "\n"s.
RECURSIVE SplitLines(_)
SplitLines(text) ==
    IF text = <<>> THEN << <<>> >>
    ELSE LET rest == SplitLines(Tail(text))
         IN IF Head(text) = "\n"
            THEN << <<>> >> \o rest
            ELSE << <<Head(text)>> \o Head(rest) >> \o Tail(rest)

RECURSIVE Concat(_)
Concat(seqs) == IF seqs = <<>> THEN <<>> ELSE Head(seqs) \o Concat(Tail(seqs))

\* The printable runes among tokens, blanks left out: LF does not return the
\* cursor to column 0, so the text of a later line is preceded by blanks.
Letters(tokens) == SelectSeq(tokens, LAMBDA t : t \in Runes)

\* The text a line holds.
LineLetters(line) == Letters([i \in 1..Len(line) |-> line[i].rune])

\* C12: fed plain text (`A\nB\nC\n` on a Screen of height 2 is the example),
\* the Screen holds the last lines of the input, as many as its height allows
\* and no fewer; the lines before them have left it, oldest first, and their
\* text is in the scrollback in the order written; after End the scrollback
\* has the text of the whole input in order.
C12_EvictionKeepsLines ==
    fed.plain =>
        LET input == SplitLines(fed.text)
            n == Len(input)
            k == Len(screen.lines)
        IN IF screen.Ended
           THEN Letters(screen.QueuedScrollbackOutput) = Letters(fed.text)
           ELSE /\ k = Min(n, screen.maxHeight)
                /\ \A i \in 1..k : LineLetters(screen.lines[i]) = input[n - k + i]
                /\ Letters(screen.QueuedScrollbackOutput)
                      = Concat(SubSeq(input, 1, n - k))

\* The number of line separators the scrollback holds.
Separators ==
    Len(SelectSeq(screen.QueuedScrollbackOutput, LAMBDA t : t = "\n"))

\* C16: after m lines have been sent to the scrollback, it holds exactly m-1
\* line separators: every line but the first is preceded by one "\n".
C16_OneSeparatorPerLine ==
    screen.sent >= 1 => Separators = screen.sent - 1

\* nextLine is about to make the line count exceed maxHeight.
Evicting ==
    /\ screen.positionY = Len(screen.lines) - 1
    /\ Len(screen.lines) = screen.maxHeight

\* What C18 says of the lines and the scrollback: lines[0] is sent to the
\* scrollback and removed, and the new empty line is the last one.
EvictsOldest ==
    /\ screen'.lines = Tail(screen.lines) \o <<NewLine>>
    /\ screen'.QueuedScrollbackOutput
         = sendLineToScrollbackBuffer(screen, screen.lines[1]).QueuedScrollbackOutput
    /\ screen'.sent = screen.sent + 1

\* C18, as stated: the eviction decrements positionY by one.
C18_EvictionDecrementsCursor ==
    [][(LineFeed /\ Evicting) =>
         EvictsOldest /\ screen'.positionY = screen.positionY - 1]_vars

\* C18, amended: the eviction sends and removes lines[0] and leaves positionY
\* as it is, so that the cursor, which was on the last line, is on the line
\* just appended.
C18_EvictionKeepsCursorIndex ==
    [][(LineFeed /\ Evicting) =>
         /\ EvictsOldest
         /\ screen'.positionY = screen.positionY
         /\ currentLine(screen') = NewLine
         /\ screen'.positionY = Len(screen'.lines) - 1]_vars

\* C18's case: on a full Screen of height 2 a line with text has been evicted
\* and the cursor is on the empty last line.
C18_Witness ==
    /\ ~screen.Ended
    /\ screen.maxHeight = 2
    /\ screen.sent = 1
    /\ screen.QueuedScrollbackOutput # <<>>
    /\ screen.positionY = 1
    /\ screen.lines[2] = NewLine
    /\ screen.lines[1] # NewLine

\* The counts a cursor movement of End can carry.
Deltas == 1..(MaxOps * (MaxCount + 1))

\* Columns to the right (negative: to the left) a token moves a terminal's cursor.
DeltaX(t) ==
    IF \E n \in Deltas : t = cursorCSI(n, "C")
    THEN CHOOSE n \in Deltas : t = cursorCSI(n, "C")
    ELSE IF \E n \in Deltas : t = cursorCSI(n, "D")
         THEN 0 - (CHOOSE n \in Deltas : t = cursorCSI(n, "D"))
         ELSE 0

\* Rows down (negative: up) a token moves a terminal's cursor.
DeltaY(t) ==
    IF \E n \in Deltas : t = cursorCSI(n, "B")
    THEN CHOOSE n \in Deltas : t = cursorCSI(n, "B")
    ELSE IF \E n \in Deltas : t = cursorCSI(n, "A")
         THEN 0 - (CHOOSE n \in Deltas : t = cursorCSI(n, "A"))
         ELSE 0

RECURSIVE SumOver(_, _)
SumOver(D(_), tokens) ==
    IF tokens = <<>> THEN 0 ELSE D(Head(tokens)) + SumOver(D, Tail(tokens))

\* C13: the cursor movements End emits after the lines take a terminal's
\* cursor from one past the last cell emitted of the last line to the Screen's
\* (positionX, positionY); when it is there already, End emits none.
C13_EndRestoresCursor ==
    [][EndOfStream =>
         LET lines == sendLinesFrom(screen, 1).QueuedScrollbackOutput
             all == screen'.QueuedScrollbackOutput
             moves == SubSeq(all, Len(lines) + 1, Len(all))
             column == Len(screen.lines[Len(screen.lines)])
             row == Len(screen.lines) - 1
         IN /\ column + SumOver(DeltaX, moves) = screen.positionX
            /\ row + SumOver(DeltaY, moves) = screen.positionY
            /\ (column = screen.positionX /\ row = screen.positionY) => moves = <<>>]_vars

\* What sendLineToScrollbackBuffer emits for a line, but for the separator.
EmissionOf(line) ==
    sendLineToScrollbackBuffer(NewScreen(TerminalWidth, 1), line).QueuedScrollbackOutput

SetCSIs == {toCSI(p) : p \in SGRParams \ {0}}

\* A terminal's attributes after an SGR token: a reset clears them, another
\* parameter replaces the attribute of its category.
AttributesAfter(attrs, t) ==
    IF t = toCSI(0) THEN {}
    ELSE IF t \in SetCSIs
         THEN LET p == CHOOSE q \in SGRParams : toCSI(q) = t
              IN {a \in attrs : sgrCategory(a) # sgrCategory(p)} \cup {p}
         ELSE attrs

\* Replaying tokens on a terminal whose attributes are attrs: the attributes in
\* effect at each rune printed, and the attributes at the end.
RECURSIVE Replay(_, _)
Replay(tokens, attrs) ==
    IF tokens = <<>> THEN [atRunes |-> <<>>, final |-> attrs]
    ELSE IF Head(tokens) \in Runes \cup {" "}
         THEN LET rest == Replay(Tail(tokens), attrs)
              IN [rest EXCEPT !.atRunes = <<attrs>> \o @]
         ELSE Replay(Tail(tokens), AttributesAfter(attrs, Head(tokens)))

ToSet(seq) == {seq[i] : i \in 1..Len(seq)}

\* C17: for every line the Screen holds, replaying what is emitted for it on a
\* terminal with default attributes prints each rune with the attributes of its
\* cell and leaves the terminal with default attributes; if an attribute was
\* set, the emission ends with the reset.
C17_AttributeFaithful ==
    \A y \in 1..Len(screen.lines) :
        LET line == screen.lines[y]
            out == EmissionOf(line)
            replay == Replay(out, {})
        IN /\ replay.atRunes = [x \in 1..Len(line) |-> ToSet(line[x].sgr)]
           /\ replay.final = {}
           /\ (\E i \in 1..Len(out) : out[i] \in SetCSIs) => out[Len(out)] = toCSI(0)

\* C17's case: a line whose first cell is bold and whose second cell has no
\* attribute.
C17_Witness ==
    /\ ~screen.Ended
    /\ Len(screen.lines[1]) = 2
    /\ screen.lines[1][1].sgr = <<1>>
    /\ screen.lines[1][2].sgr = <<>>
    /\ screen.lines[1][2].rune \in Runes

\* C19: outNormalCharacter at column x gives cell x of the current line the
\* rune and the attributes currentSGRs holds, moves the cursor to x+1 and
\* changes no other cell (cells the line had to grow by are default cells).
C19_NormalCharacterFrame ==
    [][NormalCharacter =>
         LET x == screen.positionX + 1
             y == screen.positionY + 1
             old == screen.lines[y]
             new == screen'.lines[y]
         IN /\ new[x].rune \in Runes
            /\ new[x].sgr = screen.currentSGRs.list
            /\ screen'.positionX = screen.positionX + 1
            /\ screen'.positionY = screen.positionY
            /\ screen'.currentSGRs = screen.currentSGRs
            /\ Len(screen'.lines) = Len(screen.lines)
            /\ \A j \in 1..Len(screen.lines) : j # y => screen'.lines[j] = screen.lines[j]
            /\ Len(new) = IF Len(old) >= x THEN Len(old) ELSE x
            /\ \A i \in 1..Len(new) : i # x =>
                   new[i] = IF i <= Len(old) THEN old[i] ELSE DefaultCharacter]_vars

\* The unhandled sequences among tokens.
UnhandledIn(tokens) == SelectSeq(tokens, LAMBDA t : t \in Unhandled)

\* The unhandled sequences the cells of the Screen hold.
RECURSIVE heldIn(_)
heldIn(cells) ==
    IF cells = <<>> THEN <<>>
    ELSE Head(cells).extraEscapeSequences \o heldIn(Tail(cells))

HeldOnScreen == heldIn(Concat(screen.lines))

\* Every unhandled sequence fed is on the Screen or in the scrollback, once.
NoneDroppedOrDuplicated ==
    Len(UnhandledIn(screen.QueuedScrollbackOutput)) + Len(HeldOnScreen) = fed.unhandled

\* An unhandled sequence arrives: it is added to the cell under the cursor and
\* the cursor stays.
AttachedAtCursor ==
    LET x == screen.positionX + 1
        y == screen.positionY + 1
        before == IF Len(screen.lines[y]) >= x
                  THEN screen.lines[y][x].extraEscapeSequences ELSE <<>>
        after == screen'.lines[y][x].extraEscapeSequences
    IN /\ screen'.positionX = screen.positionX
       /\ screen'.positionY = screen.positionY
       /\ Len(after) = Len(before) + 1
       /\ SubSeq(after, 1, Len(before)) = before
       /\ after[Len(after)] \in Unhandled

\* C20, as stated: in the scrollback an unhandled sequence comes immediately
\* before the rune of its cell (or before another sequence of the same cell),
\* and none is dropped or duplicated.
C20_SequenceImmediatelyBeforeRune ==
    /\ NoneDroppedOrDuplicated
    /\ LET out == screen.QueuedScrollbackOutput
       IN \A i \in 1..Len(out) :
              out[i] \in Unhandled =>
                  /\ i < Len(out)
                  /\ out[i + 1] \in Runes \cup {" "} \cup Unhandled

\* C20, amended: an unhandled sequence is attached to the cell under the
\* cursor without moving it; none is dropped or duplicated; a line is emitted
\* as, cell by cell, the sequences of the cell and then its rune, with nothing
\* but the SGR sequences of that cell in between.
C20_SequenceBeforeItsRune ==
    /\ [](NoneDroppedOrDuplicated)
    /\ [](\A y \in 1..Len(screen.lines) :
            LET line == screen.lines[y]
                out == EmissionOf(line)
                kept == SelectSeq(out, LAMBDA t : t \in Unhandled \cup Runes \cup {" "})
            IN /\ kept = Concat([x \in 1..Len(line) |->
                                   line[x].extraEscapeSequences \o <<line[x].rune>>])
               /\ \A i \in 1..Len(out) :
                      out[i] \notin Unhandled \cup Runes \cup {" "} =>
                          out[i] \in SetCSIs \cup {toCSI(0)})
    /\ [][UnhandledEscapeSequence => AttachedAtCursor]_vars

\* C20's case: a cell with an attribute held a sequence and was overwritten;
\* after End the scrollback has the sequence, then the cell's SGR sequences,
\* then the rune.
C20_Witness ==
    /\ screen.Ended
    /\ fed.unhandled = 1
    /\ Len(screen.QueuedScrollbackOutput) >= 4
    /\ screen.QueuedScrollbackOutput[1] \in Unhandled
    /\ screen.QueuedScrollbackOutput[2] = toCSI(0)
    /\ screen.QueuedScrollbackOutput[3] \in SetCSIs
    /\ screen.QueuedScrollbackOutput[4] \in Runes

(***************************************************************************)
(* start() of src/unnamed/part_000.  It differs from src/main.go in how    *)
(* the spawners are started: one goroutine calls the command-line spawner  *)
(* if args.hasTripleColon and then the stdin spawner if *flFromStdin, and  *)
(* each spawner ends with close(result) on the one channel.  The rest of   *)
(* start, toForeground and the abort flow are the same as in src/main.go.  *)
(* Here spawnerPc is the position of that goroutine:                       *)
(*   "ifHasTripleColon" | "cliLoop" | "cliRun" | "cliSend" | "cliClose" |  *)
(*   "ifFromStdin" | "stdinLoop" | "stdinRun" | "stdinSend" |              *)
(*   "stdinClose" | "done", or one of the two panics of the Go runtime.    *)
(***************************************************************************)

\* The run-time panics of a channel operation on a closed channel.  A panic in
\* any goroutine ends the program.
SendOnClosedChannel == "panic: send on closed channel"
CloseOfClosedChannel == "panic: close of closed channel"
Panicked == spawnerPc \in {SendOnClosedChannel, CloseOfClosedChannel}

\* `if args.hasTripleColon { startProcessesFromCliArguments(args, processes) }`
GoIfHasTripleColon ==
    /\ spawnerPc = "ifHasTripleColon"
    /\ spawnerPc' = IF hasTripleColon THEN "cliLoop" ELSE "ifFromStdin"
    /\ UNCHANGED <<nextArg, held, nSpawned, confVars, memVars, chanVars,
                   noLongerSpawnChildren, childVars, fgVars, tty, screenVars>>

\* The head of startProcessesFromCliArguments's loop, as SpawnerLoopCli.
FromCliLoop ==
    /\ spawnerPc = "cliLoop"
    /\ spawnerPc' = IF nextArg > nData \/ noLongerSpawnChildren
                    THEN "cliClose" ELSE "cliRun"
    /\ nextArg' = IF nextArg > nData \/ noLongerSpawnChildren
                  THEN nextArg ELSE nextArg + 1
    /\ UNCHANGED <<held, nSpawned, confVars, memVars, chanVars, noLongerSpawnChildren,
                   childVars, fgVars, tty, screenVars>>

\* `if *flFromStdin { startProcessesFromStdin(args, processes) }`, and the end
\* of the goroutine's function.
GoIfFromStdin ==
    /\ spawnerPc = "ifFromStdin"
    /\ spawnerPc' = IF flFromStdin THEN "stdinLoop" ELSE "done"
    /\ UNCHANGED <<nextArg, held, nSpawned, confVars, memVars, chanVars,
                   noLongerSpawnChildren, childVars, fgVars, tty, screenVars>>

\* The head of startProcessesFromStdin's loop: ReadString returns a line, an
\* empty line, which starts nothing, or io.EOF.  What stdin holds is the
\* environment's choice; no more than MaxArgs children are started in all.
FromStdinLoop ==
    /\ spawnerPc = "stdinLoop"
    /\ \E read \in {"line", "empty line", "EOF"} :
         /\ read = "line" => nSpawned < MaxArgs
         /\ spawnerPc' = CASE read = "line" -> "stdinRun"
                           [] read = "empty line" -> "stdinLoop"
                           [] read = "EOF" -> "stdinClose"
    /\ UNCHANGED <<nextArg, held, nSpawned, confVars, memVars, chanVars,
                   noLongerSpawnChildren, childVars, fgVars, tty, screenVars>>

\* run(processCommand) in either spawner, as SpawnerRun.
FromRun ==
    /\ spawnerPc \in {"cliRun", "stdinRun"}
    /\ nSpawned < MaxArgs
    /\ nSpawned' = nSpawned + 1
    /\ held' = nSpawned + 1
    /\ state' = [state EXCEPT ![nSpawned + 1] = "running"]
    /\ spawnerPc' = IF spawnerPc = "cliRun" THEN "cliSend" ELSE "stdinSend"
    /\ UNCHANGED <<nextArg, confVars, memVars, chanVars, noLongerSpawnChildren, signalled,
                   waited, shouldPassToParent, parts, emitted, fgVars, tty, screenVars>>

\* result <- ... in either spawner: a send on a closed channel panics; on an
\* open one it completes as in SpawnerSend.
FromSend ==
    /\ spawnerPc \in {"cliSend", "stdinSend"}
    /\ IF closed
       THEN /\ spawnerPc' = SendOnClosedChannel
            /\ UNCHANGED <<held, processes, fgVars, signalled>>
       ELSE /\ \/ /\ Len(processes) < Capacity
                  /\ processes' = Append(processes, held)
                  /\ UNCHANGED <<fgVars, signalled>>
               \/ /\ Len(processes) >= Capacity
                  /\ processes = <<>>
                  /\ Receiving
                  /\ Deliver(held)
                  /\ UNCHANGED <<processes, lastCode, exitCode>>
            /\ held' = 0
            /\ spawnerPc' = IF spawnerPc = "cliSend" THEN "cliLoop" ELSE "stdinLoop"
    /\ UNCHANGED <<nextArg, nSpawned, confVars, memVars, closed, noLongerSpawnChildren, state,
                   waited, shouldPassToParent, parts, emitted, tty, screenVars>>

\* close(result) at the end of either spawner: closing a closed channel
\* panics.  The command-line spawner returns into the goroutine's function,
\* which goes on to its second `if`.
FromClose ==
    /\ spawnerPc \in {"cliClose", "stdinClose"}
    /\ IF closed
       THEN spawnerPc' = CloseOfClosedChannel /\ closed' = closed
       ELSE /\ closed' = TRUE
            /\ spawnerPc' = IF spawnerPc = "cliClose" THEN "ifFromStdin" ELSE "done"
    /\ UNCHANGED <<nextArg, held, nSpawned, confVars, memVars, processes,
                   noLongerSpawnChildren, childVars, fgVars, tty, screenVars>>

\* start() of src/unnamed/part_000 entered: the flags of the two sources are
\* independent of each other; args.data is empty without a triple colon.
FromStdinInit ==
    /\ flMaxProcesses \in MinProcesses..MaxProcesses
    /\ flKeepGoingOnError \in BOOLEAN
    /\ hasTripleColon \in BOOLEAN
    /\ nData \in (IF hasTripleColon THEN 0..MaxArgs ELSE {0})
    /\ flFromStdin \in BOOLEAN
    /\ spawnerPc = "ifHasTripleColon"
    /\ nextArg = 1
    /\ held = 0
    /\ nSpawned = 0
    /\ processes = <<>>
    /\ closed = FALSE
    /\ noLongerSpawnChildren = FALSE
    /\ state = [c \in Children |-> "unspawned"]
    /\ signalled = [c \in Children |-> FALSE]
    /\ waited = [c \in Children |-> FALSE]
    /\ shouldPassToParent = [c \in Children |-> FALSE]
    /\ parts = [c \in Children |-> <<>>]
    /\ emitted = [c \in Children |-> 0]
    /\ fgPc = "recv"
    /\ cur = 0
    /\ lastCode = 0
    /\ exitCode = 0
    /\ wg = {}
    /\ tty = <<>>
    /\ partsMutex = 0
    /\ currentlyStored = 0
    /\ currentlyInTheForeground = 0
    /\ broadcasts = 0
    /\ ttyOpen = TRUE
    /\ screen = NewScreen(TerminalWidth, 1)
    /\ calls = 0
    /\ fed = [plain |-> TRUE, text |-> <<>>, unhandled |-> 0]

\* A step of the goroutine, or, for as long as the program has not panicked, of
\* the foreground loop, a waiter or a child.
FromStdinNext ==
    \/ GoIfHasTripleColon
    \/ FromCliLoop
    \/ GoIfFromStdin
    \/ FromStdinLoop
    \/ FromRun
    \/ FromSend
    \/ FromClose
    \/ ~Panicked /\ FgRecv
    \/ ~Panicked /\ FgWriteOut
    \/ ~Panicked /\ FgLatch
    \/ ~Panicked /\ FgWait
    \/ ~Panicked /\ FgCheck
    \/ ~Panicked /\ AbortRecv
    \/ ~Panicked /\ AbortWgWait
    \/ \E c \in Children : ~Panicked /\ WaiterDone(c)
    \/ \E c \in Children : ~Panicked /\ ChildOutput(c)
    \/ \E c \in Children : ~Panicked /\ ChildExit(c)

FromStdinSpec == FromStdinInit /\ [][FromStdinNext]_vars

(***************************************************************************)
(* The claim about the argument sources.                                   *)
(***************************************************************************)
\* The goroutine that runs the spawners has returned.
SubmissionOver == spawnerPc = "done"

\* C21: whichever of the two argument sources are on (triple-colon arguments
\* present or absent, read-from-stdin on or off), the results channel is
\* closed exactly once, after the last child has been submitted, and nothing
\* is sent on it after it is closed: no send and no second close ever meets a
\* closed channel, once submission is over the channel is closed, and a
\* closed channel means that no child is still to be sent.
C21_ClosedExactlyOnce ==
    /\ ~Panicked
    /\ SubmissionOver => closed
    /\ closed => held = 0

====
